---- MODULE Spec2Model ----
(***************************************************************************)
(* GraphTerm (TermGraph): the terminal graphics encoders, the thumbnail    *)
(* and icon caches, and the render loop that writes a thumbnail after each *)
(* drawn frame.                                                            *)
(*                                                                         *)
(* A Rust String holding escape sequences is modelled as the sequence of   *)
(* its frames.  A frame  ESC _G <control> ; <payload> ESC \  is the record *)
(*   [start |-> "ESC_G", ctrl |-> <<key/value pairs>>,                     *)
(*    payload |-> <<base64 symbols>>, end |-> "ESC\\"]                     *)
(* and String::new() is the empty sequence of frames.  A base64 symbol is  *)
(* its index 0..63 in the STANDARD alphabet, 64 is the padding '='.        *)
(***************************************************************************)
EXTENDS Integers, Sequences, FiniteSets, TLC

VARIABLES
    encIn,      \* encoder harness: the input handed to an encoder
    encWho,     \* encoder harness: which encoder ran ("none" before)
    encOut,     \* encoder harness: the String it returned, as frames
    thumbCache,   \* ThumbnailCache.cache: path -> sequence
    thumbBackend, \* ThumbnailCache.backend.protocol
    iconCache,    \* IconManager.cache: key -> sequence
    iconBackend,  \* IconManager.backend.protocol
    disk,         \* the file system: path -> image content, or NoImage
    calls,        \* the last two calls made on the caches, oldest first
    pc,           \* App::run: the step of the loop body that runs next
    env,          \* the process environment read by detect_protocol
    graphics,     \* App.graphics.protocol
    ui,           \* App.ui
    fs,           \* App.fs
    should_quit,  \* App.should_quit
    thumbnail,    \* App::run: the local `thumbnail` of the current tick
    tick,         \* what the current tick has done so far
    term          \* the terminal reading stdout: its graphics receiver

encVars   == <<encIn, encWho, encOut>>
cacheVars == <<thumbCache, thumbBackend, iconCache, iconBackend, disk, calls>>
appVars   == <<pc, env, graphics, ui, fs, should_quit, thumbnail, tick, term>>
vars == <<encVars, cacheVars, appVars>>

----------------------------------------------------------------------------
(* Program constants *)

\* thumbnails.rs:109,114  icons.rs:112,117  kitty.rs:22,31
CHUNK == 4096
\* thumbnails.rs:11
THUMBNAIL_SIZE == 200
\* icons.rs:10
ICON_SIZE == 16

(* Bounds of the model *)

\* number of distinct pixel contents (seeds) per image size
NumSeeds == 2
\* PNG lengths 1..MaxSmallPng are all tried, next to the boundary lengths
MaxSmallPng == 4

Seeds == 0..(NumSeeds - 1)

Min(a, b) == IF a < b THEN a ELSE b
Max(a, b) == IF a > b THEN a ELSE b

----------------------------------------------------------------------------
(* Bytes of a PNG container and of raw image data *)

\* The byte string a bitmap serialises to is fixed by the bitmap; the model
\* names a bitmap's content by (len, seed) and gives it these bytes.  The
\* period 251 does not divide the 3072 bytes of a chunk, so no two chunks
\* of one payload are equal.
ByteAt(seed, i) == (seed * 37 + i) % 251

\* (\o <<>> : the bytes are held as a tuple, not as a function to re-evaluate)
Bytes(len, seed) == [i \in 1..len |-> ByteAt(seed, i)] \o <<>>

\* base64::engine::general_purpose::STANDARD.encode: 3 bytes -> 4 symbols,
\* '=' padding (symbol 64) in the last group
PAD == 64

Base64Len(n) == 4 * ((n + 2) \div 3)

Base64Sym(bytes, n, j) ==
    LET g  == (j - 1) \div 4
        p  == (j - 1) % 4
        b0 == bytes[3 * g + 1]
        b1 == IF 3 * g + 2 <= n THEN bytes[3 * g + 2] ELSE 0
        b2 == IF 3 * g + 3 <= n THEN bytes[3 * g + 3] ELSE 0
    IN  CASE p = 0 -> b0 \div 4
          [] p = 1 -> (b0 % 4) * 16 + (b1 \div 16)
          [] p = 2 -> IF 3 * g + 2 > n THEN PAD ELSE (b1 % 16) * 4 + (b2 \div 64)
          [] p = 3 -> IF 3 * g + 3 > n THEN PAD ELSE b2 % 64

Base64Encode(bytes) ==
    LET n == Len(bytes)
    IN  [j \in 1..Base64Len(n) |-> Base64Sym(bytes, n, j)]

----------------------------------------------------------------------------
(* Bitmaps *)

\* An RGBA bitmap: width, height, and its pixel content, named by the
\* length and the seed of the PNG container the content serialises to.
Bitmap(w, h, len, seed) ==
    [kind |-> "image", w |-> w, h |-> h, len |-> len, seed |-> seed]

\* A synthesized icon: a square of one colour, with or without the tab.
IconBitmap(color, tab) ==
    [kind |-> "icon", w |-> ICON_SIZE, h |-> ICON_SIZE, color |-> color, tab |-> tab]

\* write_to failing, its error dropped by .ok(): no byte is written
PngEncode_failing(img) == <<>>

\* img.write_to(&mut cursor, ImageFormat::Png): the container's bytes.  An
\* icon's container is fixed by its colour and its tab.
PngEncode(img) ==
    IF img.kind = "icon"
    THEN <<img.color[1], img.color[2], img.color[3], img.color[4],
           IF img.tab THEN 1 ELSE 0>>
    ELSE Bytes(img.len, img.seed)

\* (v as f32 / d).ceil() as u16, exact for the pixel sizes of a thumbnail
CeilDiv(v, d) == (v + d - 1) \div d

----------------------------------------------------------------------------
(* Frames *)

\* a frame left without its end marker
Frame_unterminated(ctrl, payload) ==
    [start |-> "ESC_G", ctrl |-> ctrl, payload |-> payload, end |-> ""]

\* format!("\x1b_G{ctrl};{payload}\x1b\\"): start marker, control data,
\* payload, end marker
Frame(ctrl, payload) ==
    [start |-> "ESC_G", ctrl |-> ctrl, payload |-> payload, end |-> "ESC\\"]

\* Chunks as chunks_exact would slice: the short tail is dropped
Chunks_exact(s, size) ==
    [k \in 1..(Len(s) \div size) |->
        SubSeq(s, (k - 1) * size + 1, k * size)]

\* Chunks one byte short of the size
Chunks_short(s, size) ==
    [k \in 1..((Len(s) + size - 2) \div (size - 1)) |->
        SubSeq(s, (k - 1) * (size - 1) + 1, Min(k * (size - 1), Len(s)))]

\* <[u8]>::chunks(size): consecutive slices of size bytes, the last shorter
Chunks(s, size) ==
    [k \in 1..((Len(s) + size - 1) \div size) |->
        SubSeq(s, (k - 1) * size + 1, Min(k * size, Len(s)))]

\* std::str::from_utf8(chunk).unwrap_or(""): a base64 symbol is one ASCII
\* byte, so a slice of symbols is valid UTF-8 wherever it is cut
from_utf8_or_empty(chunk) ==
    IF \A i \in 1..Len(chunk) : chunk[i] \in 0..PAD THEN chunk ELSE <<>>

\* ThumbnailCache::encode_kitty with the threshold test written < for <=
ThumbnailCache_encode_kitty_lt(img) ==
    LET png_data == PngEncode(img)
        encoded  == Base64Encode(png_data)
        cols     == CeilDiv(img.w, 12)
        rows     == CeilDiv(img.h, 24)
        meta     == << <<"f", 100>>, <<"a", "T">>, <<"t", "d">>,
                       <<"c", cols>>, <<"r", rows>> >>
    IN  IF Len(encoded) < CHUNK
        THEN << Frame(meta, encoded) >>
        ELSE LET chunks == Chunks(encoded, CHUNK)
             IN  [k \in 1..Len(chunks) |->
                    LET i         == k - 1
                        is_last   == i = Len(chunks) - 1
                        m         == IF is_last THEN 0 ELSE 1
                        chunk_str == from_utf8_or_empty(chunks[k])
                    IN  IF i = 0
                        THEN Frame(meta \o << <<"m", m>> >>, chunk_str)
                        ELSE Frame(<< <<"m", m>> >>, chunk_str)]

\* ThumbnailCache::encode_kitty with the flag values exchanged: 0 on every
\* frame but the last, 1 on the last
ThumbnailCache_encode_kitty_swapped(img) ==
    LET png_data == PngEncode(img)
        encoded  == Base64Encode(png_data)
        cols     == CeilDiv(img.w, 12)
        rows     == CeilDiv(img.h, 24)
        meta     == << <<"f", 100>>, <<"a", "T">>, <<"t", "d">>,
                       <<"c", cols>>, <<"r", rows>> >>
    IN  IF Len(encoded) <= CHUNK
        THEN << Frame(meta, encoded) >>
        ELSE LET chunks == Chunks(encoded, CHUNK)
             IN  [k \in 1..Len(chunks) |->
                    LET i         == k - 1
                        is_last   == i = Len(chunks) - 1
                        m         == IF is_last THEN 1 ELSE 0
                        chunk_str == from_utf8_or_empty(chunks[k])
                    IN  IF i = 0
                        THEN Frame(meta \o << <<"m", m>> >>, chunk_str)
                        ELSE Frame(<< <<"m", m>> >>, chunk_str)]

\* ThumbnailCache::encode_kitty
ThumbnailCache_encode_kitty(img) ==
    LET png_data == PngEncode(img)
        encoded  == Base64Encode(png_data)
        cols     == CeilDiv(img.w, 12)
        rows     == CeilDiv(img.h, 24)
        meta     == << <<"f", 100>>, <<"a", "T">>, <<"t", "d">>,
                       <<"c", cols>>, <<"r", rows>> >>
    IN  IF Len(encoded) <= CHUNK
        THEN << Frame(meta, encoded) >>
        ELSE LET chunks == Chunks(encoded, CHUNK)
             IN  [k \in 1..Len(chunks) |->
                    LET i         == k - 1
                        is_last   == i = Len(chunks) - 1
                        m         == IF is_last THEN 0 ELSE 1
                        chunk_str == from_utf8_or_empty(chunks[k])
                    IN  IF i = 0
                        THEN Frame(meta \o << <<"m", m>> >>, chunk_str)
                        ELSE Frame(<< <<"m", m>> >>, chunk_str)]

\* IconManager::encode_kitty with is_last tested against chunks.len()
IconManager_encode_kitty_nolast(img) ==
    LET png_data == PngEncode(img)
        encoded  == Base64Encode(png_data)
        meta     == << <<"f", 100>>, <<"a", "T">>, <<"t", "d">>,
                       <<"c", 2>>, <<"r", 1>> >>
    IN  IF Len(encoded) <= CHUNK
        THEN << Frame(meta, encoded) >>
        ELSE LET chunks == Chunks(encoded, CHUNK)
             IN  [k \in 1..Len(chunks) |->
                    LET i         == k - 1
                        is_last   == i = Len(chunks)
                        m         == IF is_last THEN 0 ELSE 1
                        chunk_str == from_utf8_or_empty(chunks[k])
                    IN  IF i = 0
                        THEN Frame(meta \o << <<"m", m>> >>, chunk_str)
                        ELSE Frame(<< <<"m", m>> >>, chunk_str)]

\* IconManager::encode_kitty
IconManager_encode_kitty(img) ==
    LET png_data == PngEncode(img)
        encoded  == Base64Encode(png_data)
        meta     == << <<"f", 100>>, <<"a", "T">>, <<"t", "d">>,
                       <<"c", 2>>, <<"r", 1>> >>
    IN  IF Len(encoded) <= CHUNK
        THEN << Frame(meta, encoded) >>
        ELSE LET chunks == Chunks(encoded, CHUNK)
             IN  [k \in 1..Len(chunks) |->
                    LET i         == k - 1
                        is_last   == i = Len(chunks) - 1
                        m         == IF is_last THEN 0 ELSE 1
                        chunk_str == from_utf8_or_empty(chunks[k])
                    IN  IF i = 0
                        THEN Frame(meta \o << <<"m", m>> >>, chunk_str)
                        ELSE Frame(<< <<"m", m>> >>, chunk_str)]

\* kitty::render: _width and _height are not used
kitty_render(x, y, width, height, image_data) ==
    LET encoded == Base64Encode(image_data)
        meta    == << <<"f", 100>>, <<"a", "T">>, <<"t", "d">>,
                      <<"x", x>>, <<"y", y>> >>
    IN  IF Len(encoded) <= CHUNK
        THEN << Frame(meta, encoded) >>
        ELSE LET chunks == [k \in 1..Len(Chunks(encoded, CHUNK)) |->
                               from_utf8_or_empty(Chunks(encoded, CHUNK)[k])]
             IN  [k \in 1..Len(chunks) |->
                    LET i       == k - 1
                        is_last == i = Len(chunks) - 1
                        m       == IF is_last THEN 0 ELSE 1
                    IN  IF i = 0
                        THEN Frame(meta \o << <<"m", m>> >>, chunks[k])
                        ELSE Frame(<< <<"m", m>> >>, chunks[k])]

----------------------------------------------------------------------------
(* Protocols and the one-frame encoders *)

Protocols == {"Kitty", "Sixel", "ITerm2", "Fallback"}

\* ESC ]1337;File= <control> : <payload> BEL
OscFrame(ctrl, payload) ==
    [start |-> "ESC]1337;File=", ctrl |-> ctrl, payload |-> payload, end |-> "BEL"]

\* encode_iterm2 splitting the payload into frames of 4096 symbols
ThumbnailCache_encode_iterm2_chunked(img) ==
    LET png_data == PngEncode(img)
        encoded  == Base64Encode(png_data)
        chunks   == Chunks(encoded, CHUNK)
    IN  [k \in 1..Len(chunks) |->
            OscFrame(<< <<"inline", 1>>, <<"preserveAspectRatio", 1>> >>, chunks[k])]

\* ThumbnailCache::encode_iterm2
ThumbnailCache_encode_iterm2(img) ==
    LET png_data == PngEncode(img)
        encoded  == Base64Encode(png_data)
    IN  << OscFrame(<< <<"inline", 1>>, <<"preserveAspectRatio", 1>> >>, encoded) >>

\* IconManager::encode_iterm2
IconManager_encode_iterm2(img) ==
    LET png_data == PngEncode(img)
        encoded  == Base64Encode(png_data)
    IN  << OscFrame(<< <<"inline", 1>>, <<"width", 2>>, <<"height", 1>> >>, encoded) >>

\* encode_thumbnail handing Sixel to the Kitty encoder
encode_thumbnail_sixel_as_kitty(protocol, img) ==
    CASE protocol \in {"Kitty", "Sixel"} -> ThumbnailCache_encode_kitty(img)
      [] protocol = "ITerm2" -> ThumbnailCache_encode_iterm2(img)
      [] OTHER               -> <<>>

\* ThumbnailCache::encode_thumbnail
encode_thumbnail(protocol, img) ==
    CASE protocol = "Kitty"  -> ThumbnailCache_encode_kitty(img)
      [] protocol = "ITerm2" -> ThumbnailCache_encode_iterm2(img)
      [] OTHER               -> <<>>

\* IconManager::encode_icon
encode_icon(protocol, img) ==
    CASE protocol = "Kitty"  -> IconManager_encode_kitty(img)
      [] protocol = "ITerm2" -> IconManager_encode_iterm2(img)
      [] OTHER               -> <<>>

\* sixel::render: a stub
sixel_render(x, y, width, height, image_data) == <<>>

\* GraphicsBackend::render_iterm2
render_iterm2(x, y, width, height, image_data) ==
    LET encoded == Base64Encode(image_data)
    IN  << OscFrame(<< <<"inline", 1>>, <<"size", Len(image_data)>> >>, encoded) >>

\* GraphicsBackend::render_image
render_image(protocol, x, y, width, height, image_data) ==
    CASE protocol = "Kitty"  -> kitty_render(x, y, width, height, image_data)
      [] protocol = "Sixel"  -> sixel_render(x, y, width, height, image_data)
      [] protocol = "ITerm2" -> render_iterm2(x, y, width, height, image_data)
      [] OTHER               -> <<>>

\* supports_images answering yes under every protocol
supports_images_always(protocol) == TRUE

\* GraphicsBackend::supports_images
supports_images(protocol) == protocol # "Fallback"

----------------------------------------------------------------------------
(* Paths and image files *)

None == [some |-> FALSE]
Some(v) == [some |-> TRUE, val |-> v]

\* Text is a sequence of characters.  A path is the directory (the sequence
\* of its components below the root) and the file name.
Path(dir, name) == [dir |-> dir, name |-> name]

Uppers == <<"A","B","C","D","E","F","G","H","I","J","K","L","M",
            "N","O","P","Q","R","S","T","U","V","W","X","Y","Z">>
Lowers == <<"a","b","c","d","e","f","g","h","i","j","k","l","m",
            "n","o","p","q","r","s","t","u","v","w","x","y","z">>

\* str::to_lowercase on ASCII text
to_lowercase(str) ==
    [i \in 1..Len(str) |->
        IF \E j \in 1..Len(Uppers) : Uppers[j] = str[i]
        THEN Lowers[CHOOSE j \in 1..Len(Uppers) : Uppers[j] = str[i]]
        ELSE str[i]]

\* Path::extension: the text after the last '.' of the file name; None when
\* the name has no '.', or only a leading one
extension(name) ==
    LET dots == {i \in 1..Len(name) : name[i] = "."}
    IN  IF dots = {} THEN None
        ELSE LET last == CHOOSE i \in dots : \A j \in dots : j <= i
             IN  IF last = 1 THEN None
                 ELSE Some(SubSeq(name, last + 1, Len(name)))

ImageExts ==
    { <<"p","n","g">>, <<"j","p","g">>, <<"j","p","e","g">>, <<"g","i","f">>,
      <<"w","e","b","p">>, <<"b","m","p">>, <<"i","c","o">> }

\* ThumbnailCache::is_image_file
is_image_file(path) ==
    LET e   == extension(path.name)
        ext == IF e.some THEN to_lowercase(e.val) ELSE <<>>
    IN  ext \in ImageExts

\* the directories and files of the model's file system
Root    == <<>>
PicsDir == << <<"p","i","c","s">> >>
A_png     == Path(PicsDir, <<"a",".","p","n","g">>)
B_JPG     == Path(PicsDir, <<"b",".","J","P","G">>)
Notes_txt == Path(Root, <<"n","o","t","e","s",".","t","x","t">>)
Makefile  == Path(Root, <<"M","a","k","e","f","i","l","e">>)

\* what image::open finds at a path: an image, or nothing it can decode
NoImage == [kind |-> "none"]

\* round(a / b) for a >= 0, b > 0
RoundDiv(a, b) == (2 * a + b) \div (2 * b)

\* DynamicImage::resize -> resize_dimensions(w, h, nwidth, nheight, fill = false):
\* the largest size of the source's aspect ratio inside nwidth x nheight,
\* each side rounded and at least 1
resize_dimensions(w, h, nwidth, nheight) ==
    IF nwidth * h <= nheight * w
    THEN <<Max(RoundDiv(w * nwidth, w), 1), Max(RoundDiv(h * nwidth, w), 1)>>
    ELSE <<Max(RoundDiv(w * nheight, h), 1), Max(RoundDiv(h * nheight, h), 1)>>

\* the (new_w, new_h) of ThumbnailCache::create_thumbnail: `as u32` truncates
thumbnail_target(w, h) ==
    IF w > h
    THEN <<THUMBNAIL_SIZE, (THUMBNAIL_SIZE * h) \div w>>
    ELSE <<(THUMBNAIL_SIZE * w) \div h, THUMBNAIL_SIZE>>

\* ThumbnailCache::create_thumbnail
create_thumbnail(img) ==
    LET t == thumbnail_target(img.w, img.h)
        d == resize_dimensions(img.w, img.h, t[1], t[2])
    IN  Bitmap(d[1], d[2], img.len, img.seed)

----------------------------------------------------------------------------
(* The thumbnail cache *)

\* get_thumbnail without the look-up: every call decodes and inserts
get_thumbnail_nolookup(cache, protocol, dsk, path) ==
    IF ~is_image_file(path)
    THEN [ret |-> None, cache |-> cache, miss |-> FALSE, decodes |-> 0, encodes |-> 0]
    ELSE IF dsk[path].kind = "none"
    THEN [ret |-> None, cache |-> cache, miss |-> TRUE, decodes |-> 1, encodes |-> 0]
    ELSE LET img       == dsk[path]
             thumb     == create_thumbnail(img)
             sequence  == encode_thumbnail(protocol, thumb)
         IN  [ret |-> Some(sequence), cache |-> (path :> sequence) @@ cache,
              miss |-> TRUE, decodes |-> 1, encodes |-> 1]

\* get_thumbnail keeping only the newest entry
get_thumbnail_evict(cache, protocol, dsk, path) ==
    IF ~is_image_file(path)
    THEN [ret |-> None, cache |-> cache, miss |-> FALSE, decodes |-> 0, encodes |-> 0]
    ELSE IF path \in DOMAIN cache
    THEN [ret |-> Some(cache[path]), cache |-> cache, miss |-> FALSE,
          decodes |-> 0, encodes |-> 0]
    ELSE IF dsk[path].kind = "none"
    THEN [ret |-> None, cache |-> cache, miss |-> TRUE, decodes |-> 1, encodes |-> 0]
    ELSE LET img       == dsk[path]
             thumb     == create_thumbnail(img)
             sequence  == encode_thumbnail(protocol, thumb)
         IN  [ret |-> Some(sequence), cache |-> (path :> sequence),
              miss |-> TRUE, decodes |-> 1, encodes |-> 1]

\* get_thumbnail answering a failed decode with an empty sequence
get_thumbnail_empty_on_failure(cache, protocol, dsk, path) ==
    IF ~is_image_file(path)
    THEN [ret |-> None, cache |-> cache, miss |-> FALSE, decodes |-> 0, encodes |-> 0]
    ELSE IF path \in DOMAIN cache
    THEN [ret |-> Some(cache[path]), cache |-> cache, miss |-> FALSE,
          decodes |-> 0, encodes |-> 0]
    ELSE IF dsk[path].kind = "none"
    THEN [ret |-> Some(<<>>), cache |-> cache, miss |-> TRUE, decodes |-> 1, encodes |-> 0]
    ELSE LET img       == dsk[path]
             thumb     == create_thumbnail(img)
             sequence  == encode_thumbnail(protocol, thumb)
         IN  [ret |-> Some(sequence), cache |-> (path :> sequence) @@ cache,
              miss |-> TRUE, decodes |-> 1, encodes |-> 1]

\* get_thumbnail storing an empty sequence when the decode fails
get_thumbnail_caches_failure(cache, protocol, dsk, path) ==
    IF ~is_image_file(path)
    THEN [ret |-> None, cache |-> cache, miss |-> FALSE, decodes |-> 0, encodes |-> 0]
    ELSE IF path \in DOMAIN cache
    THEN [ret |-> Some(cache[path]), cache |-> cache, miss |-> FALSE,
          decodes |-> 0, encodes |-> 0]
    ELSE IF dsk[path].kind = "none"
    THEN [ret |-> None, cache |-> (path :> <<>>) @@ cache, miss |-> TRUE,
          decodes |-> 1, encodes |-> 0]
    ELSE LET img       == dsk[path]
             thumb     == create_thumbnail(img)
             sequence  == encode_thumbnail(protocol, thumb)
         IN  [ret |-> Some(sequence), cache |-> (path :> sequence) @@ cache,
              miss |-> TRUE, decodes |-> 1, encodes |-> 1]

\* get_thumbnail decoding the file again on a hit, and dropping the entry of
\* a file that can no longer be decoded
get_thumbnail_revalidate(cache, protocol, dsk, path) ==
    IF ~is_image_file(path)
    THEN [ret |-> None, cache |-> cache, miss |-> FALSE, decodes |-> 0, encodes |-> 0]
    ELSE IF dsk[path].kind = "none"
    THEN [ret |-> None, cache |-> [q \in DOMAIN cache \ {path} |-> cache[q]],
          miss |-> path \notin DOMAIN cache, decodes |-> 1, encodes |-> 0]
    ELSE LET img       == dsk[path]
             thumb     == create_thumbnail(img)
             sequence  == encode_thumbnail(protocol, thumb)
         IN  [ret |-> Some(sequence), cache |-> (path :> sequence) @@ cache,
              miss |-> path \notin DOMAIN cache, decodes |-> 1, encodes |-> 1]

\* get_thumbnail without the test of the extension
get_thumbnail_any_extension(cache, protocol, dsk, path) ==
    IF path \in DOMAIN cache
    THEN [ret |-> Some(cache[path]), cache |-> cache, miss |-> FALSE,
          decodes |-> 0, encodes |-> 0]
    ELSE IF dsk[path].kind = "none"
    THEN [ret |-> None, cache |-> cache, miss |-> TRUE, decodes |-> 1, encodes |-> 0]
    ELSE LET img       == dsk[path]
             thumb     == create_thumbnail(img)
             sequence  == encode_thumbnail(protocol, thumb)
         IN  [ret |-> Some(sequence), cache |-> (path :> sequence) @@ cache,
              miss |-> TRUE, decodes |-> 1, encodes |-> 1]

\* ThumbnailCache::get_thumbnail: the value returned, the table afterwards,
\* and what the call did (miss: the table was consulted and had no entry;
\* decodes, encodes: calls of image::open and of encode_thumbnail)
get_thumbnail(cache, protocol, dsk, path) ==
    IF ~is_image_file(path)
    THEN [ret |-> None, cache |-> cache, miss |-> FALSE, decodes |-> 0, encodes |-> 0]
    ELSE IF path \in DOMAIN cache
    THEN [ret |-> Some(cache[path]), cache |-> cache, miss |-> FALSE,
          decodes |-> 0, encodes |-> 0]
    ELSE IF dsk[path].kind = "none"
    THEN [ret |-> None, cache |-> cache, miss |-> TRUE, decodes |-> 1, encodes |-> 0]
    ELSE LET img       == dsk[path]
             thumb     == create_thumbnail(img)
             sequence  == encode_thumbnail(protocol, thumb)
         IN  [ret |-> Some(sequence), cache |-> (path :> sequence) @@ cache,
              miss |-> TRUE, decodes |-> 1, encodes |-> 1]

----------------------------------------------------------------------------
(* The icon manager *)

FolderColor == <<100, 180, 255, 255>>

\* the colour table without the override for directories
icon_color_by_type_only(file_type, is_dir) ==
    CASE file_type = "rs" -> <<255, 100, 50, 255>>
      [] file_type = "py" -> <<50, 150, 255, 255>>
      [] file_type \in {"js", "ts"} -> <<255, 220, 50, 255>>
      [] file_type = "md" -> <<100, 200, 100, 255>>
      [] file_type \in {"toml", "json", "yaml"} -> <<200, 150, 255, 255>>
      [] file_type \in {"png", "jpg", "gif"} -> <<255, 100, 150, 255>>
      [] OTHER -> <<180, 180, 180, 255>>

\* the colour table of IconManager::generate_icon
icon_color(file_type, is_dir) ==
    IF is_dir THEN FolderColor
    ELSE CASE file_type = "rs" -> <<255, 100, 50, 255>>
           [] file_type = "py" -> <<50, 150, 255, 255>>
           [] file_type \in {"js", "ts"} -> <<255, 220, 50, 255>>
           [] file_type = "md" -> <<100, 200, 100, 255>>
           [] file_type \in {"toml", "json", "yaml"} -> <<200, 150, 255, 255>>
           [] file_type \in {"png", "jpg", "gif"} -> <<255, 100, 150, 255>>
           [] OTHER -> <<180, 180, 180, 255>>

\* IconManager::generate_icon
generate_icon(file_type, is_dir) == IconBitmap(icon_color(file_type, is_dir), is_dir)

\* get_icon_sequence inserting under file_type instead of key
get_icon_sequence_rawkey(cache, protocol, file_type, is_dir) ==
    IF ~supports_images(protocol)
    THEN [ret |-> <<>>, cache |-> cache, key |-> "", miss |-> FALSE,
          synths |-> 0, encodes |-> 0]
    ELSE LET key == IF is_dir THEN "folder" ELSE file_type
         IN  IF key \in DOMAIN cache
             THEN [ret |-> cache[key], cache |-> cache, key |-> key, miss |-> FALSE,
                   synths |-> 0, encodes |-> 0]
             ELSE LET icon     == generate_icon(file_type, is_dir)
                      sequence == encode_icon(protocol, icon)
                  IN  [ret |-> sequence, cache |-> (file_type :> sequence) @@ cache,
                       key |-> key, miss |-> TRUE, synths |-> 1, encodes |-> 1]

\* IconManager::get_icon_sequence
get_icon_sequence(cache, protocol, file_type, is_dir) ==
    IF ~supports_images(protocol)
    THEN [ret |-> <<>>, cache |-> cache, key |-> "", miss |-> FALSE,
          synths |-> 0, encodes |-> 0]
    ELSE LET key == IF is_dir THEN "folder" ELSE file_type
         IN  IF key \in DOMAIN cache
             THEN [ret |-> cache[key], cache |-> cache, key |-> key, miss |-> FALSE,
                   synths |-> 0, encodes |-> 0]
             ELSE LET icon     == generate_icon(file_type, is_dir)
                      sequence == encode_icon(protocol, icon)
                  IN  [ret |-> sequence, cache |-> (key :> sequence) @@ cache,
                       key |-> key, miss |-> TRUE, synths |-> 1, encodes |-> 1]

----------------------------------------------------------------------------
(* Detection of the graphics protocol *)

\* An environment variable is unset, holds Unicode text, or holds bytes that
\* are not Unicode; std::env::var is Ok only for the second.
Unset      == [state |-> "unset", text |-> <<>>]
Text(t)    == [state |-> "unicode", text |-> t]
NotUnicode == [state |-> "notunicode", text |-> <<>>]

var_is_ok(v) == v.state = "unicode"

\* str::contains
contains(str, pat) ==
    \E i \in 0..(Len(str) - Len(pat)) : SubSeq(str, i + 1, i + Len(pat)) = pat

Kitty_str    == <<"k","i","t","t","y">>
ITerm_app    == <<"i","T","e","r","m",".","a","p","p">>
Xterm_kitty  == <<"x","t","e","r","m","-","k","i","t","t","y">>
Xterm_256    == <<"x","t","e","r","m","-","2","5","6","c","o","l","o","r">>

\* detect_protocol with the iTerm2 rule tried first
detect_protocol_vendor_first(e) ==
    IF var_is_ok(e.TERM_PROGRAM) /\ e.TERM_PROGRAM.text = ITerm_app THEN "ITerm2"
    ELSE IF var_is_ok(e.KITTY_WINDOW_ID) THEN "Kitty"
    ELSE IF var_is_ok(e.TERM) /\ contains(e.TERM.text, Kitty_str) THEN "Kitty"
    ELSE IF var_is_ok(e.WEZTERM_PANE) THEN "Kitty"
    ELSE "Fallback"

\* detect_protocol without the WezTerm rule
detect_protocol_no_pane(e) ==
    IF var_is_ok(e.KITTY_WINDOW_ID) THEN "Kitty"
    ELSE IF var_is_ok(e.TERM) /\ contains(e.TERM.text, Kitty_str) THEN "Kitty"
    ELSE IF var_is_ok(e.TERM_PROGRAM) /\ e.TERM_PROGRAM.text = ITerm_app THEN "ITerm2"
    ELSE "Fallback"

\* GraphicsBackend::detect_protocol
detect_protocol(e) ==
    IF var_is_ok(e.KITTY_WINDOW_ID) THEN "Kitty"
    ELSE IF var_is_ok(e.TERM) /\ contains(e.TERM.text, Kitty_str) THEN "Kitty"
    ELSE IF var_is_ok(e.TERM_PROGRAM) /\ e.TERM_PROGRAM.text = ITerm_app THEN "ITerm2"
    ELSE IF var_is_ok(e.WEZTERM_PANE) THEN "Kitty"
    ELSE "Fallback"

Env(k, t, p, w) == [KITTY_WINDOW_ID |-> k, TERM |-> t, TERM_PROGRAM |-> p, WEZTERM_PANE |-> w]

----------------------------------------------------------------------------
(* The UI state *)

\* Ui::new
Ui_new ==
    [selected_index |-> 0, scroll_offset |-> 0, show_context_menu |-> FALSE,
     context_menu_pos |-> <<0, 0>>, context_menu_selected |-> 0,
     show_sidebar |-> TRUE, show_preview |-> TRUE]

\* Ui::move_selection
move_selection(u, delta, total_items) ==
    LET new_index == u.selected_index + delta
    IN  IF new_index >= 0 /\ new_index < total_items
        THEN [u EXCEPT !.selected_index = new_index]
        ELSE u

\* Ui::scroll
scroll(u, delta) ==
    LET new_offset == u.scroll_offset + delta
    IN  IF new_offset >= 0 THEN [u EXCEPT !.scroll_offset = new_offset] ELSE u

\* Ui::toggle_sidebar
toggle_sidebar(u) == [u EXCEPT !.show_sidebar = ~u.show_sidebar]

\* Ui::toggle_preview
toggle_preview(u) == [u EXCEPT !.show_preview = ~u.show_preview]

\* Ui::get_item_at_position
get_item_at_position(u, row, column) ==
    IF row >= 4 THEN Some((row - 4) + u.scroll_offset) ELSE None

----------------------------------------------------------------------------
(* The file listing *)

\* the directory tree of the model, each directory as read_dir yields it
\* (in no particular order): name and whether it is a directory
DirEnt(name, is_dir) == [name |-> name, is_dir |-> is_dir]

ReadDir(dir) ==
    IF dir = Root
    THEN << DirEnt(<<".","g","i","t">>, TRUE), DirEnt(Notes_txt.name, FALSE),
            DirEnt(<<"p","i","c","s">>, TRUE), DirEnt(Makefile.name, FALSE) >>
    ELSE IF dir = PicsDir
    THEN << DirEnt(B_JPG.name, FALSE), DirEnt(A_png.name, FALSE) >>
    ELSE << >>

\* Path::is_dir
path_is_dir(dir) == dir \in {Root, PicsDir, << <<".","g","i","t">> >>}

\* the byte of an ASCII character, for the characters of the model's names
CharCode(c) ==
    IF \E j \in 1..26 : Uppers[j] = c THEN 64 + (CHOOSE j \in 1..26 : Uppers[j] = c)
    ELSE IF \E j \in 1..26 : Lowers[j] = c THEN 96 + (CHOOSE j \in 1..26 : Lowers[j] = c)
    ELSE 46

\* String's Ord: a < b, byte by byte
StrLess(a, b) ==
    \E k \in 1..(Min(Len(a), Len(b)) + 1) :
        /\ \A j \in 1..(k - 1) : a[j] = b[j]
        /\ \/ k > Len(a) /\ k <= Len(b)
           \/ k <= Len(a) /\ k <= Len(b) /\ CharCode(a[k]) < CharCode(b[k])

\* the comparison of load_directory's sort_by: directories first, then by
\* lower-cased name
EntryLess(a, b) ==
    \/ a.is_dir /\ ~b.is_dir
    \/ a.is_dir = b.is_dir /\ StrLess(to_lowercase(a.name), to_lowercase(b.name))

\* FileSystem::new
FileSystem_new(path) == [current_path |-> path, entries |-> <<>>]

\* FileSystem::load_directory (size and modified are left out of FileEntry)
load_directory(f) ==
    LET listed == ReadDir(f.current_path)
        made   == [i \in 1..Len(listed) |->
                     [name |-> listed[i].name,
                      path |-> Path(f.current_path, listed[i].name),
                      is_dir |-> listed[i].is_dir]]
        shown(e) == ~(Len(e.name) > 0 /\ e.name[1] = ".")
    IN  [f EXCEPT !.entries = SortSeq(SelectSeq(made, shown), EntryLess)]

\* FileSystem::enter_directory
enter_directory(f, name) ==
    LET new_path == Append(f.current_path, name)
    IN  IF path_is_dir(new_path)
        THEN load_directory([f EXCEPT !.current_path = new_path])
        ELSE f

\* Path::parent
parent(dir) == IF Len(dir) = 0 THEN None ELSE Some(SubSeq(dir, 1, Len(dir) - 1))

\* FileSystem::go_up
go_up(f) ==
    LET p == parent(f.current_path)
    IN  IF p.some THEN load_directory([f EXCEPT !.current_path = p.val]) ELSE f

\* get_selected falling back to the last entry when the index is past the end
get_selected_or_last(f, index) ==
    IF index < Len(f.entries) THEN Some(f.entries[index + 1])
    ELSE IF Len(f.entries) > 0 THEN Some(f.entries[Len(f.entries)])
    ELSE None

\* FileSystem::get_selected (index counts from 0)
get_selected(f, index) ==
    IF index < Len(f.entries) THEN Some(f.entries[index + 1]) ELSE None

----------------------------------------------------------------------------
(* Key and mouse handling *)

Key(code) == [type |-> "Key", code |-> code, row |-> 0, column |-> 0]
Mouse(kind, row, column) == [type |-> "Mouse", code |-> kind, row |-> row, column |-> column]
Resize == [type |-> "Resize", code |-> "", row |-> 0, column |-> 0]
NoEvent == [type |-> "None", code |-> "", row |-> 0, column |-> 0]

\* the part of App that its handlers read and write
AppState(u, f, q) == [ui |-> u, fs |-> f, should_quit |-> q]

\* handle_key with q and Esc quitting also while the context menu is open
handle_key_quit_through_menu(a, key) ==
    IF key \in {"q", "Esc"} THEN [a EXCEPT !.should_quit = TRUE]
    ELSE IF a.ui.show_context_menu
    THEN CASE key = "Up" ->
                IF a.ui.context_menu_selected > 0
                THEN [a EXCEPT !.ui.context_menu_selected = @ - 1]
                ELSE a
           [] key = "Down" ->
                IF a.ui.context_menu_selected < 5
                THEN [a EXCEPT !.ui.context_menu_selected = @ + 1]
                ELSE a
           [] key = "Enter" -> [a EXCEPT !.ui.show_context_menu = FALSE]
           [] OTHER -> a
    ELSE LET total == Len(a.fs.entries)
         IN  CASE key \in {"Up", "k"} -> [a EXCEPT !.ui = move_selection(@, -1, total)]
               [] key \in {"Down", "j"} -> [a EXCEPT !.ui = move_selection(@, 1, total)]
               [] key = "F1" -> [a EXCEPT !.ui = toggle_sidebar(@)]
               [] key = "F2" -> [a EXCEPT !.ui = toggle_preview(@)]
               [] key = "Enter" ->
                    LET sel == get_selected(a.fs, a.ui.selected_index)
                    IN  IF sel.some /\ sel.val.is_dir
                        THEN [a EXCEPT !.fs = enter_directory(@, sel.val.name),
                                       !.ui.selected_index = 0]
                        ELSE a
               [] key = "Backspace" ->
                    [a EXCEPT !.fs = go_up(@), !.ui.selected_index = 0]
               [] key = "Home" -> [a EXCEPT !.ui.selected_index = 0]
               [] key = "End" -> [a EXCEPT !.ui.selected_index = Max(total - 1, 0)]
               [] OTHER -> a

\* App::handle_key
handle_key(a, key) ==
    IF a.ui.show_context_menu
    THEN CASE key = "Esc" -> [a EXCEPT !.ui.show_context_menu = FALSE]
           [] key = "Up" ->
                IF a.ui.context_menu_selected > 0
                THEN [a EXCEPT !.ui.context_menu_selected = @ - 1]
                ELSE a
           [] key = "Down" ->
                IF a.ui.context_menu_selected < 5
                THEN [a EXCEPT !.ui.context_menu_selected = @ + 1]
                ELSE a
           [] key = "Enter" -> [a EXCEPT !.ui.show_context_menu = FALSE]
           [] OTHER -> a
    ELSE LET total == Len(a.fs.entries)
         IN  CASE key \in {"q", "Esc"} -> [a EXCEPT !.should_quit = TRUE]
               [] key \in {"Up", "k"} -> [a EXCEPT !.ui = move_selection(@, -1, total)]
               [] key \in {"Down", "j"} -> [a EXCEPT !.ui = move_selection(@, 1, total)]
               [] key = "F1" -> [a EXCEPT !.ui = toggle_sidebar(@)]
               [] key = "F2" -> [a EXCEPT !.ui = toggle_preview(@)]
               [] key = "Enter" ->
                    LET sel == get_selected(a.fs, a.ui.selected_index)
                    IN  IF sel.some /\ sel.val.is_dir
                        THEN [a EXCEPT !.fs = enter_directory(@, sel.val.name),
                                       !.ui.selected_index = 0]
                        ELSE a
               [] key = "Backspace" ->
                    [a EXCEPT !.fs = go_up(@), !.ui.selected_index = 0]
               [] key = "Home" -> [a EXCEPT !.ui.selected_index = 0]
               [] key = "End" -> [a EXCEPT !.ui.selected_index = Max(total - 1, 0)]
               [] OTHER -> a

\* App::handle_mouse
handle_mouse(a, mouse) ==
    CASE mouse.code = "LeftDown" ->
            LET clicked_index == get_item_at_position(a.ui, mouse.row, mouse.column)
            IN  IF clicked_index.some
                THEN [a EXCEPT !.ui.selected_index = clicked_index.val]
                ELSE a
      [] mouse.code = "RightDown" ->
            [a EXCEPT !.ui.show_context_menu = TRUE,
                      !.ui.context_menu_pos = <<mouse.column, mouse.row>>]
      [] mouse.code = "ScrollUp" -> [a EXCEPT !.ui = scroll(@, -3)]
      [] mouse.code = "ScrollDown" -> [a EXCEPT !.ui = scroll(@, 3)]
      [] OTHER -> a

\* the match on event::read() of App::run
handle_event(a, ev) ==
    CASE ev.type = "Key" -> handle_key(a, ev.code)
      [] ev.type = "Mouse" -> handle_mouse(a, ev)
      [] OTHER -> a

----------------------------------------------------------------------------
(* Drawing *)

\* Ui::render, reduced to what the preview pane and the overlays show:
\* which kind of preview, whether it announces a thumbnail, and the menu
Ui_render(u, f, thumb) ==
    LET sel == get_selected(f, u.selected_index)
        preview ==
            IF ~u.show_preview THEN "hidden"
            ELSE IF ~sel.some THEN "No file selected"
            ELSE IF sel.val.is_dir THEN "Directory"
            ELSE IF is_image_file(sel.val.path) THEN "Image"
            ELSE "File"
    IN  [path |-> f.current_path,
         files |-> Len(f.entries),
         preview |-> preview,
         thumbnail_below |-> preview = "Image" /\ thumb.some,
         context_menu |-> u.show_context_menu]

----------------------------------------------------------------------------
(* The terminal's graphics receiver *)

\* busy: a transmission is open (the last graphics frame read had flag 1);
\* acc: the number of payload symbols accumulated in the open transmission
Rx_new == [busy |-> FALSE, acc |-> 0]

\* what the receiver made of one write: nframes frames were read, images
\* transmissions were completed, the latest of them on frame number `at`
\* with `size` payload symbols
NoRx == [nframes |-> 0, images |-> 0, at |-> 0, size |-> 0]

NoScreen ==
    [path |-> <<>>, files |-> 0, preview |-> "", thumbnail_below |-> FALSE,
     context_menu |-> FALSE]

\* one tick of App::run so far: the paths fetched from the thumbnail cache,
\* the steps taken in order, what the draw put on the screen, the bytes
\* written to stdout and what the receiver made of them
Tick_new ==
    [fetched |-> <<>>, steps |-> <<>>, screen |-> NoScreen, written |-> None,
     rx |-> NoRx]

\* the application while only the encoders or the caches are exercised
AppIdle ==
    /\ pc = "idle"
    /\ env = Env(Unset, Unset, Unset, Unset)
    /\ graphics = "Fallback"
    /\ ui = Ui_new
    /\ fs = FileSystem_new(Root)
    /\ should_quit = FALSE
    /\ thumbnail = None
    /\ tick = Tick_new
    /\ term = Rx_new

----------------------------------------------------------------------------
(* The two caches under any sequence of calls, on a changing file system *)

CachePaths == {A_png, B_JPG, Notes_txt, Makefile}

\* the images a file may hold
DiskImages == {Bitmap(300, 100, 1 + seed, seed) : seed \in Seeds}

\* what each path may hold: a.png any image or none; b.JPG, notes.txt and
\* Makefile always the same image
DiskContents(path) ==
    IF path = A_png THEN DiskImages \cup {NoImage}
    ELSE {Bitmap(64, 64, 3, 0)}

IconTypes == {"rs", "folder"}

\* the encoder harness while the caches are exercised
EncIdle ==
    /\ encIn = <<>>
    /\ encWho = "idle"
    /\ encOut = <<>>

\* The log keeps the last two calls.  An entry names the table's key: the
\* path of a thumbnail fetch (NoPath otherwise), the key of an icon fetch
\* ("" otherwise); ret is Some(sequence) or None.
NoPath == Path(<<>>, <<>>)

Push(log, rec) == IF Len(log) < 2 THEN Append(log, rec) ELSE <<log[2], rec>>

InitCache ==
    /\ EncIdle
    /\ AppIdle
    /\ thumbCache = <<>>
    /\ iconCache = <<>>
    /\ \E pr \in Protocols : thumbBackend = pr /\ iconBackend = pr
    /\ disk \in [CachePaths -> UNION {DiskContents(q) : q \in CachePaths}]
    /\ \A q \in CachePaths : disk[q] \in DiskContents(q)
    /\ calls = <<>>

GetThumbnail(path) ==
    LET r == get_thumbnail(thumbCache, thumbBackend, disk, path)
    IN  /\ thumbCache' = r.cache
        /\ calls' = Push(calls,
              [op |-> "get_thumbnail", path |-> path, name |-> "", ret |-> r.ret, miss |-> r.miss,
               decodes |-> r.decodes, synths |-> 0, encodes |-> r.encodes,
               img |-> IF r.decodes = 1 THEN disk[path] ELSE NoImage,
               had |-> DOMAIN thumbCache, hadIcon |-> DOMAIN iconCache])
        /\ UNCHANGED <<encVars, appVars, thumbBackend, iconCache, iconBackend, disk>>

\* clear that leaves the table as it is
ClearThumbnails_noop ==
    /\ thumbCache' = thumbCache
    /\ calls' = Push(calls,
          [op |-> "clear", path |-> NoPath, name |-> "", ret |-> None, miss |-> FALSE,
           decodes |-> 0, synths |-> 0, encodes |-> 0, img |-> NoImage,
           had |-> DOMAIN thumbCache, hadIcon |-> DOMAIN iconCache])
    /\ UNCHANGED <<encVars, appVars, thumbBackend, iconCache, iconBackend, disk>>

\* ThumbnailCache::clear
ClearThumbnails ==
    /\ thumbCache' = <<>>
    /\ calls' = Push(calls,
          [op |-> "clear", path |-> NoPath, name |-> "", ret |-> None, miss |-> FALSE,
           decodes |-> 0, synths |-> 0, encodes |-> 0, img |-> NoImage,
           had |-> DOMAIN thumbCache, hadIcon |-> DOMAIN iconCache])
    /\ UNCHANGED <<encVars, appVars, thumbBackend, iconCache, iconBackend, disk>>

GetIconSequence(file_type, is_dir) ==
    LET r == get_icon_sequence(iconCache, iconBackend, file_type, is_dir)
    IN  /\ iconCache' = r.cache
        /\ calls' = Push(calls,
              [op |-> "get_icon_sequence", path |-> NoPath, name |-> r.key,
               ret |-> Some(r.ret),
               miss |-> r.miss, decodes |-> 0, synths |-> r.synths,
               encodes |-> r.encodes,
               img |-> IF r.synths = 1 THEN generate_icon(file_type, is_dir) ELSE NoImage,
               had |-> DOMAIN thumbCache, hadIcon |-> DOMAIN iconCache])
        /\ UNCHANGED <<encVars, appVars, thumbCache, thumbBackend, iconBackend, disk>>

\* the environment: a file appears, changes, disappears or becomes unreadable
ChangeFile(path, content) ==
    /\ content # disk[path]
    /\ disk' = [disk EXCEPT ![path] = content]
    /\ UNCHANGED <<encVars, appVars, thumbCache, thumbBackend, iconCache, iconBackend, calls>>

NextCache ==
    \/ \E path \in CachePaths : GetThumbnail(path)
    \/ ClearThumbnails
    \/ \E file_type \in IconTypes, is_dir \in BOOLEAN : GetIconSequence(file_type, is_dir)
    \/ \E path \in CachePaths : \E content \in DiskContents(path) : ChangeFile(path, content)

SpecCache == InitCache /\ [][NextCache]_vars

----------------------------------------------------------------------------
(* The encoders applied to bounded inputs *)

\* PNG lengths: the small ones, and those whose base64 length lies at and
\* around one, two and three chunks (3072 bytes -> 4096 symbols,
\* 7500 bytes -> 10000 symbols)
PngLens == (1..MaxSmallPng) \cup {3072, 3073, 6144, 6145, 7500}

\* (width, height) of the bitmaps handed to the encoders
Dims == {<<200, 100>>, <<16, 16>>}

\* (x, y, width, height) of a render_image call
Places == {<<0, 0, 10, 10>>, <<3, 7, 17, 5>>}

EncInputs ==
    {Bitmap(d[1], d[2], len, seed) : d \in Dims, len \in PngLens, seed \in Seeds}

\* the caches while only the encoders are exercised
CacheIdle ==
    /\ thumbCache = <<>>
    /\ thumbBackend = "Kitty"
    /\ iconCache = <<>>
    /\ iconBackend = "Kitty"
    /\ disk = <<>>
    /\ calls = <<>>

InitEnc ==
    /\ encIn \in EncInputs
    /\ encWho = "none"
    /\ encOut = <<>>
    /\ CacheIdle
    /\ AppIdle

EncodeThumbnailKitty ==
    /\ encWho = "none"
    /\ encWho' = "thumb"
    /\ encOut' = ThumbnailCache_encode_kitty(encIn)
    /\ UNCHANGED <<encIn, cacheVars, appVars>>

EncodeIconKitty ==
    /\ encWho = "none"
    /\ encWho' = "icon"
    /\ encOut' = IconManager_encode_kitty(encIn)
    /\ UNCHANGED <<encIn, cacheVars, appVars>>

RenderKitty ==
    /\ encWho = "none"
    /\ \E pl \in Places :
         /\ encWho' = "render"
         /\ encOut' = kitty_render(pl[1], pl[2], pl[3], pl[4], PngEncode(encIn))
    /\ UNCHANGED <<encIn, cacheVars, appVars>>

NextEnc == EncodeThumbnailKitty \/ EncodeIconKitty \/ RenderKitty

SpecEnc == InitEnc /\ [][NextEnc]_vars

----------------------------------------------------------------------------
(* Reading frames *)

\* the frame's control data holds key=val
HasCtrl(frame, key, val) ==
    \E i \in 1..Len(frame.ctrl) : frame.ctrl[i][1] = key /\ frame.ctrl[i][2] = val

CtrlKeys(frame) == {frame.ctrl[i][1] : i \in 1..Len(frame.ctrl)}

\* the continuation flag a receiver reads: m when present, else 0
FlagOf(frame) == IF HasCtrl(frame, "m", 1) THEN 1 ELSE 0

RECURSIVE ConcatPayloads(_)
ConcatPayloads(frames) ==
    IF Len(frames) = 0 THEN <<>>
    ELSE frames[1].payload \o ConcatPayloads(Tail(frames))

----------------------------------------------------------------------------
(* The render loop *)

\* The receiver reads one frame, the k-th of a write.  A frame that is not a
\* graphics command (ESC _G) is not the receiver's; flag 1 keeps the
\* transmission open, flag 0 or no flag completes the image.
Rx(st, frame, k) ==
    IF frame.start # "ESC_G" THEN st
    ELSE IF FlagOf(frame) = 1
    THEN [st EXCEPT !.term.busy = TRUE, !.term.acc = @ + Len(frame.payload)]
    ELSE [st EXCEPT !.term.busy = FALSE, !.term.acc = 0,
                    !.rx.images = @ + 1, !.rx.at = k,
                    !.rx.size = st.term.acc + Len(frame.payload)]

RECURSIVE RxRun(_, _, _)
RxRun(st, frames, k) ==
    IF k > Len(frames) THEN st
    ELSE RxRun(Rx(st, frames[k], k), frames, k + 1)

\* the receiver after the terminal has read the frames of one write, and
\* what it made of them
RxWrite(t, frames) ==
    RxRun([term |-> t, rx |-> [NoRx EXCEPT !.nframes = Len(frames)]], frames, 1)

\* rows 0..MaxRow can be clicked
MaxRow == 5
\* the wheel is turned only while scroll_offset stays within MaxScroll
MaxScroll == 3

\* the environments the application is started in
StartEnvs ==
    { Env(Text(<<"1">>), Text(Xterm_kitty), Unset, Unset),
      Env(Unset, Text(Xterm_256), Text(ITerm_app), Unset),
      Env(Unset, Text(Xterm_256), Unset, Unset) }

\* b.JPG serialises to a PNG of 3073 bytes: 4100 base64 symbols, two chunks
BigImage == Bitmap(640, 480, 3073, 0)

AppDiskContents(path) ==
    IF path = A_png THEN DiskImages \cup {NoImage}
    ELSE IF path = B_JPG THEN {BigImage}
    ELSE {NoImage}

AppPaths == {A_png, B_JPG, Notes_txt, Makefile}

\* the events event::read may deliver
AppEvents ==
    {NoEvent, Resize}
    \cup {Key(c) : c \in {"q", "Esc", "Up", "Down", "Enter", "Backspace", "End"}}
    \cup {Mouse("LeftDown", row, 0) : row \in {3, 4, MaxRow}}
    \cup {Mouse("RightDown", 2, 5), Mouse("ScrollUp", 0, 0), Mouse("ScrollDown", 0, 0),
          Mouse("Moved", 0, 0)}

\* the state after App::new
Init ==
    /\ EncIdle
    /\ pc = "start"
    /\ env \in StartEnvs
    /\ graphics = detect_protocol(env)
    /\ thumbBackend = graphics
    /\ thumbCache = <<>>
    /\ iconCache = <<>>
    /\ iconBackend = "Fallback"
    /\ calls = <<>>
    /\ disk \in [AppPaths -> UNION {AppDiskContents(q) : q \in AppPaths}]
    /\ \A q \in AppPaths : disk[q] \in AppDiskContents(q)
    /\ ui = Ui_new
    /\ fs = FileSystem_new(Root)
    /\ should_quit = FALSE
    /\ thumbnail = None
    /\ tick = Tick_new
    /\ term = Rx_new

\* App::run, before the loop: load the initial directory
Start ==
    /\ pc = "start"
    /\ fs' = load_directory(fs)
    /\ pc' = "fetch"
    /\ UNCHANGED <<encVars, cacheVars, env, graphics, ui, should_quit, thumbnail,
                   tick, term>>

\* App::run fetching with the protocol detected anew from the environment
Fetch_redetect ==
    /\ pc = "fetch"
    /\ thumbBackend' = detect_protocol(env)
    /\ LET sel == get_selected(fs, ui.selected_index)
       IN  IF sel.some /\ is_image_file(sel.val.path)
           THEN LET r == get_thumbnail(thumbCache, thumbBackend', disk, sel.val.path)
                IN  /\ thumbnail' = r.ret
                    /\ thumbCache' = r.cache
                    /\ tick' = [Tick_new EXCEPT !.fetched = <<sel.val.path>>,
                                                 !.steps = <<"fetch">>]
           ELSE /\ thumbnail' = None
                /\ thumbCache' = thumbCache
                /\ tick' = [Tick_new EXCEPT !.steps = <<"fetch">>]
    /\ pc' = "draw"
    /\ UNCHANGED <<encVars, iconCache, iconBackend, disk, calls,
                   env, graphics, ui, fs, should_quit, term>>

\* App::run, the thumbnail for the current selection
Fetch ==
    /\ pc = "fetch"
    /\ LET sel == get_selected(fs, ui.selected_index)
       IN  IF sel.some /\ is_image_file(sel.val.path)
           THEN LET r == get_thumbnail(thumbCache, thumbBackend, disk, sel.val.path)
                IN  /\ thumbnail' = r.ret
                    /\ thumbCache' = r.cache
                    /\ tick' = [Tick_new EXCEPT !.fetched = <<sel.val.path>>,
                                                 !.steps = <<"fetch">>]
           ELSE /\ thumbnail' = None
                /\ thumbCache' = thumbCache
                /\ tick' = [Tick_new EXCEPT !.steps = <<"fetch">>]
    /\ pc' = "draw"
    /\ UNCHANGED <<encVars, thumbBackend, iconCache, iconBackend, disk, calls,
                   env, graphics, ui, fs, should_quit, term>>

\* App::run, terminal.draw
Draw ==
    /\ pc = "draw"
    /\ tick' = [tick EXCEPT !.steps = Append(@, "draw"),
                            !.screen = Ui_render(ui, fs, thumbnail)]
    /\ pc' = "write"
    /\ UNCHANGED <<encVars, cacheVars, env, graphics, ui, fs, should_quit, thumbnail, term>>

\* the write done in every tick, of nothing when there is no thumbnail
Write_always ==
    /\ pc = "write"
    /\ LET seq == IF thumbnail.some THEN thumbnail.val ELSE <<>>
           r   == RxWrite(term, seq)
       IN  /\ tick' = [tick EXCEPT !.steps = Append(@, "write"),
                                   !.written = Some(seq),
                                   !.rx = r.rx]
           /\ term' = r.term
    /\ pc' = "poll"
    /\ UNCHANGED <<encVars, cacheVars, env, graphics, ui, fs, should_quit, thumbnail>>

\* App::run, the thumbnail sequence written to stdout after the frame; the
\* terminal reads what is written
Write ==
    /\ pc = "write"
    /\ IF thumbnail.some
       THEN LET r == RxWrite(term, thumbnail.val)
            IN  /\ tick' = [tick EXCEPT !.steps = Append(@, "write"),
                                        !.written = Some(thumbnail.val),
                                        !.rx = r.rx]
                /\ term' = r.term
       ELSE UNCHANGED <<tick, term>>
    /\ pc' = "poll"
    /\ UNCHANGED <<encVars, cacheVars, env, graphics, ui, fs, should_quit, thumbnail>>

\* App::run, the event poll and the test of should_quit that ends the tick
Poll(ev) ==
    /\ pc = "poll"
    /\ LET a == handle_event(AppState(ui, fs, should_quit), ev)
       IN  /\ a.ui.scroll_offset <= MaxScroll
           /\ ui' = a.ui
           /\ fs' = a.fs
           /\ should_quit' = a.should_quit
           /\ pc' = IF a.should_quit THEN "done" ELSE "fetch"
    /\ thumbnail' = None
    /\ tick' = Tick_new
    /\ UNCHANGED <<encVars, cacheVars, env, graphics, term>>

Next ==
    \/ Start
    \/ Fetch
    \/ Draw
    \/ Write
    \/ \E ev \in AppEvents : Poll(ev)
    \/ \E content \in AppDiskContents(A_png) : ChangeFile(A_png, content)

Spec == Init /\ [][Next]_vars

----------------------------------------------------------------------------
(* The claims on the encoders *)

\* the base64 payload of the harness input, as one un-chunked frame carries it
EncPayload == Base64Encode(PngEncode(encIn))

EncRan == encWho \in {"thumb", "icon", "render"}

EncChunked == EncRan /\ Len(EncPayload) > CHUNK

----------------------------------------------------------------------------
(* C1: for every bitmap whose base64 payload is longer than 4096 bytes,    *)
(* the payloads of the frames of each TileProtocol encoder, concatenated   *)
(* in emission order, are exactly the base64 payload of the un-chunked     *)
(* frame.                                                                  *)
C1_ChunksConcatToPayload ==
    EncRan =>
        LET P == EncPayload
        IN  Len(P) > CHUNK => ConcatPayloads(encOut) = P

C1_Witness ==
    /\ encWho = "thumb"
    /\ Len(encOut) = 3
    /\ LET P == EncPayload
       IN  Len(P) = 10000 /\ ConcatPayloads(encOut) = P

(* C2: in every chunked sequence exactly one frame has continuation flag   *)
(* 0, it is the last frame, and every earlier frame has flag 1.            *)
C2_OnlyLastFrameFlagZero ==
    EncChunked =>
        /\ Len(encOut) >= 1
        /\ \A i \in 1..Len(encOut) :
             /\ "m" \in CtrlKeys(encOut[i])
             /\ IF i = Len(encOut) THEN HasCtrl(encOut[i], "m", 0)
                                   ELSE HasCtrl(encOut[i], "m", 1)
        /\ Cardinality({i \in 1..Len(encOut) : HasCtrl(encOut[i], "m", 0)}) = 1

C2_Witness ==
    /\ encWho = "icon"
    /\ Len(encOut) = 3
    /\ HasCtrl(encOut[1], "m", 1)
    /\ HasCtrl(encOut[2], "m", 1)
    /\ HasCtrl(encOut[3], "m", 0)

(* C3: a payload of length L > 4096 is emitted as exactly ceil(L/4096)     *)
(* frames, every frame but the last with exactly 4096 payload bytes, the   *)
(* last with 1..4096; a 10000-byte payload gives 3 frames, flags 1, 1, 0.  *)
C3_FrameCountAndSizes ==
    EncChunked =>
        LET L == Len(EncPayload)
            n == Len(encOut)
        IN  /\ n = CeilDiv(L, CHUNK)
            /\ \A i \in 1..(n - 1) : Len(encOut[i].payload) = CHUNK
            /\ Len(encOut[n].payload) \in 1..CHUNK
            /\ L = 10000 =>
                 /\ n = 3
                 /\ <<FlagOf(encOut[1]), FlagOf(encOut[2]), FlagOf(encOut[3])>>
                      = <<1, 1, 0>>

C3_Witness ==
    /\ encWho = "render"
    /\ Len(EncPayload) = 10000
    /\ Len(encOut) = 3
    /\ Len(encOut[3].payload) = 10000 - 2 * CHUNK

(* C4: a TileProtocol encoder emits exactly one frame, without a           *)
(* continuation flag, if and only if the base64 payload is at most 4096    *)
(* bytes long; 4096 bytes go out as one frame, the next longer payload     *)
(* (4100 bytes, base64 lengths being multiples of 4) goes out chunked.     *)
C4_SingleFrameIffWithinChunk ==
    EncRan =>
        LET L == Len(EncPayload)
        IN  /\ (Len(encOut) = 1 /\ "m" \notin CtrlKeys(encOut[1])) <=> (L <= CHUNK)
            /\ L > CHUNK =>
                 /\ Len(encOut) > 1
                 /\ \A i \in 1..Len(encOut) : "m" \in CtrlKeys(encOut[i])
            /\ L = CHUNK => Len(encOut[1].payload) = CHUNK
            /\ L = CHUNK + 4 => Len(encOut) = 2

C4_Witness ==
    /\ encWho = "thumb"
    /\ Len(encOut) = 1
    /\ "m" \notin CtrlKeys(encOut[1])
    /\ LET P == EncPayload
       IN  Len(P) = CHUNK /\ encOut[1].payload = P

(* C5: in every TileProtocol encoder the single frame and the first chunk  *)
(* frame carry the control metadata f=100,a=T,t=d,c=<cols>,r=<rows> (the   *)
(* first chunk followed by m), and every later frame carries only m.       *)
CtrlKeySeq(frame) == [i \in 1..Len(frame.ctrl) |-> frame.ctrl[i][1]]

C5_FullMetadataOnFirstFrameOnly ==
    EncRan =>
        /\ Len(encOut) >= 1
        /\ HasCtrl(encOut[1], "f", 100)
        /\ HasCtrl(encOut[1], "a", "T")
        /\ HasCtrl(encOut[1], "t", "d")
        /\ CtrlKeySeq(encOut[1]) =
             IF Len(encOut) = 1 THEN <<"f", "a", "t", "c", "r">>
                                ELSE <<"f", "a", "t", "c", "r", "m">>
        /\ encWho = "thumb" =>
             /\ HasCtrl(encOut[1], "c", CeilDiv(encIn.w, 12))
             /\ HasCtrl(encOut[1], "r", CeilDiv(encIn.h, 24))
        /\ encWho = "icon" =>
             /\ HasCtrl(encOut[1], "c", 2)
             /\ HasCtrl(encOut[1], "r", 1)
        /\ \A i \in 2..Len(encOut) : CtrlKeySeq(encOut[i]) = <<"m">>

----------------------------------------------------------------------------
(* The claim on the render loop's writes *)

(* C6: the receiver is never left in the middle of an accumulation: no     *)
(* state of the run has a transmission open.  And when the render loop has *)
(* written a TileProtocol thumbnail, the receiver, reading its frames in   *)
(* order, accumulating while the flag is 1 and completing on flag 0 or no  *)
(* flag, has completed exactly one image, on the last frame written, and   *)
(* every payload symbol written is part of that image.                     *)
C6_ReceiverCompletesOneImagePerWrite ==
    /\ ~term.busy
    /\ term.acc = 0
    /\ (graphics = "Kitty" /\ tick.written.some) =>
          LET frames == tick.written.val
          IN  /\ Len(frames) >= 1
              /\ tick.rx.nframes = Len(frames)
              /\ tick.rx.images = 1
              /\ tick.rx.at = Len(frames)
              /\ tick.rx.size = Len(ConcatPayloads(frames))

\* the render loop has written a thumbnail of two frames and the receiver
\* has completed it on the second
C6_Witness ==
    /\ pc = "poll"
    /\ graphics = "Kitty"
    /\ tick.written.some
    /\ Len(tick.written.val) = 2
    /\ FlagOf(tick.written.val[1]) = 1
    /\ tick.rx.images = 1
    /\ tick.rx.at = 2
    /\ ~term.busy

----------------------------------------------------------------------------
(* Reading the call log *)

LastCall == calls[Len(calls)]

IsFetch(c) == c.op \in {"get_thumbnail", "get_icon_sequence"}

SameKey(c1, c2) == c1.op = c2.op /\ c1.path = c2.path /\ c1.name = c2.name

\* calls the fetch made to the builder: decode, synthesis, encode
BuilderCalls(c) == c.decodes + c.synths + c.encodes

\* a thumbnail fetch whose decode failed
FailedDecode(c) == c.op = "get_thumbnail" /\ c.decodes = 1 /\ c.encodes = 0

C8_MissBuildsOnceStoresReturns ==
    Len(calls) >= 1 =>
        LET c == LastCall
        IN  /\ (c.op = "get_thumbnail" /\ c.miss /\ c.img.kind # "none") =>
                 LET built == encode_thumbnail(thumbBackend, create_thumbnail(c.img))
                 IN  /\ c.decodes = 1 /\ c.encodes = 1
                     /\ c.path \in DOMAIN thumbCache
                     /\ thumbCache[c.path] = built
                     /\ c.ret = Some(built)
                     /\ DOMAIN thumbCache = c.had \cup {c.path}
            /\ (c.op = "get_icon_sequence" /\ c.miss) =>
                 LET built == encode_icon(iconBackend, c.img)
                 IN  /\ c.synths = 1 /\ c.encodes = 1
                     /\ c.name \in DOMAIN iconCache
                     /\ iconCache[c.name] = built
                     /\ c.ret = Some(built)
                     /\ DOMAIN iconCache = c.hadIcon \cup {c.name}

C8_Witness ==
    /\ Len(calls) >= 1
    /\ LastCall.op = "get_icon_sequence"
    /\ LastCall.miss
    /\ LastCall.name = "folder"
    /\ LastCall.img.tab
    /\ Len(LastCall.ret.val) = 1
    /\ iconCache["folder"] = LastCall.ret.val

(* C9: between two clears an entry once inserted stays in its table with   *)
(* the value it was created with: no step other than clear removes a key   *)
(* or changes the sequence stored under it.                                *)
ThumbEntriesKept ==
    \A k \in DOMAIN thumbCache : k \in DOMAIN thumbCache' /\ thumbCache'[k] = thumbCache[k]

IconEntriesKept ==
    \A k \in DOMAIN iconCache : k \in DOMAIN iconCache' /\ iconCache'[k] = iconCache[k]

C9_EntriesKeptUntilClear ==
    [][(ClearThumbnails \/ ThumbEntriesKept) /\ IconEntriesKept]_vars

\* a.png was cached, the file then changed, and a later fetch still got
\* the entry made from the old content
C9_Witness ==
    /\ Len(calls) = 2
    /\ calls[1].op = "get_thumbnail" /\ calls[1].miss /\ calls[1].encodes = 1
    /\ SameKey(calls[1], calls[2])
    /\ disk[calls[1].path] # calls[1].img
    /\ thumbBackend = "Kitty"
    /\ thumbCache[calls[1].path] = encode_thumbnail(thumbBackend, create_thumbnail(calls[1].img))
    /\ calls[2].ret = Some(thumbCache[calls[1].path])

----------------------------------------------------------------------------
(* The claim on the icon table's keys *)

(* C11: under an image-capable protocol every call                         *)
(* get_icon_sequence(category, is_directory) returns exactly the sequence  *)
(* that synthesizing and encoding that (category, is_directory) afresh     *)
(* gives, whatever calls were made before.                                 *)
C11_IconFetchEqualsFreshBuild ==
    [][\A file_type \in IconTypes, is_dir \in BOOLEAN :
         (supports_images(iconBackend) /\ GetIconSequence(file_type, is_dir)) =>
             calls'[Len(calls')].ret =
                 Some(encode_icon(iconBackend, generate_icon(file_type, is_dir)))]_vars

----------------------------------------------------------------------------
(* Detection applied to every combination of the four variables *)

WindowVals  == {Unset, NotUnicode, Text(<<"1">>), Text(<<>>)}
TermVals    == {Unset, NotUnicode, Text(Xterm_kitty), Text(Xterm_256), Text(Kitty_str),
                Text(<<"k","i","t","t">>)}
ProgramVals == {Unset, NotUnicode, Text(ITerm_app), Text(<<"i","T","e","r","m">>),
                Text(<<"W","e","z","T","e","r","m">>)}
PaneVals    == {Unset, NotUnicode, Text(<<"0">>)}

DetectEnvs ==
    {Env(k, t, p, w) : k \in WindowVals, t \in TermVals, p \in ProgramVals, w \in PaneVals}

\* the process before GraphicsBackend::detect has run
InitDetect ==
    /\ EncIdle
    /\ CacheIdle
    /\ pc = "detect"
    /\ env \in DetectEnvs
    /\ graphics = "undetected"
    /\ ui = Ui_new
    /\ fs = FileSystem_new(Root)
    /\ should_quit = FALSE
    /\ thumbnail = None
    /\ tick = Tick_new
    /\ term = Rx_new

\* GraphicsBackend::detect
Detect ==
    /\ pc = "detect"
    /\ graphics' = detect_protocol(env)
    /\ pc' = "detected"
    /\ UNCHANGED <<encVars, cacheVars, env, ui, fs, should_quit, thumbnail, tick, term>>

NextDetect == Detect

SpecDetect == InitDetect /\ [][NextDetect]_vars

\* the variable is in the environment, whatever its value
Present(v) == v.state # "unset"

\* the variable is in the environment and its value is Unicode text
HasText(v) == v.state = "unicode"

C13_Original ==
    (pc = "detected" /\ Present(env.WEZTERM_PANE)) => graphics = "Kitty"

(* C13: whenever the pane-identity variable holds Unicode text and the     *)
(* terminal program is not "iTerm.app", detection returns Kitty, whatever  *)
(* the other variables hold; with the terminal program "iTerm.app", no     *)
(* window-identity text and no "kitty" terminal type, it returns ITerm2    *)
(* although the pane-identity variable is present.                         *)
C13_PaneGivesKittyUnlessVendor ==
    (pc = "detected" /\ HasText(env.WEZTERM_PANE)) =>
        LET vendor == HasText(env.TERM_PROGRAM) /\ env.TERM_PROGRAM.text = ITerm_app
        IN  /\ ~vendor => graphics = "Kitty"
            /\ (vendor /\ ~HasText(env.KITTY_WINDOW_ID)
                  /\ ~(HasText(env.TERM) /\ contains(env.TERM.text, Kitty_str))) =>
                    graphics = "ITerm2"

C13_Witness ==
    /\ pc = "detected"
    /\ HasText(env.WEZTERM_PANE)
    /\ ~HasText(env.KITTY_WINDOW_ID)
    /\ env.TERM = Text(Xterm_256)
    /\ env.TERM_PROGRAM = Text(<<"W","e","z","T","e","r","m">>)
    /\ graphics = "Kitty"

----------------------------------------------------------------------------
(* The render loop in an environment that changes while it runs *)

\* the environment: variables are set, changed or removed during the run
ChangeEnv(e) ==
    /\ e # env
    /\ env' = e
    /\ UNCHANGED <<encVars, cacheVars, pc, graphics, ui, fs, should_quit, thumbnail,
                   tick, term>>

\* the events that take the selection to the images and end the run
EnvEvents == {NoEvent, Key("Down"), Key("Enter"), Key("q")}

NextEnv ==
    \/ Start
    \/ Fetch
    \/ Draw
    \/ Write
    \/ \E ev \in EnvEvents : Poll(ev)
    \/ \E e \in StartEnvs : ChangeEnv(e)

SpecEnv == Init /\ [][NextEnv]_vars

(* C14: the protocol is resolved once at startup and never changes: at     *)
(* startup the application and the thumbnail cache hold the protocol       *)
(* detected from the environment, and no step of the run changes either    *)
(* of them, also when the environment changes during the run (it is not    *)
(* read again).                                                            *)
C14_ProtocolFixedAtStartup ==
    /\ graphics = detect_protocol(env)
    /\ thumbBackend = graphics
    /\ [][graphics' = graphics /\ thumbBackend' = thumbBackend]_vars

\* the environment now selects another protocol than the one in use, and a
\* thumbnail encoded under the startup protocol has been written
C14_Witness ==
    /\ pc = "poll"
    /\ detect_protocol(env) = "ITerm2"
    /\ graphics = "Kitty"
    /\ thumbBackend = "Kitty"
    /\ tick.written.some
    /\ Len(tick.written.val) >= 1
    /\ tick.written.val[1].start = "ESC_G"

----------------------------------------------------------------------------
(* The encoders under each protocol *)

\* the bitmaps handed to the encoders: those of EncInputs and two icons
ProtoInputs ==
    EncInputs \cup {generate_icon("rs", FALSE), generate_icon("rs", TRUE)}

\* a backend of any protocol, about to encode one bitmap
InitProto ==
    /\ encIn \in ProtoInputs
    /\ encWho = "none"
    /\ encOut = <<>>
    /\ \E pr \in Protocols : graphics = pr /\ thumbBackend = pr /\ iconBackend = pr
    /\ thumbCache = <<>>
    /\ iconCache = <<>>
    /\ disk = <<>>
    /\ calls = <<>>
    /\ pc = "idle"
    /\ env = Env(Unset, Unset, Unset, Unset)
    /\ ui = Ui_new
    /\ fs = FileSystem_new(Root)
    /\ should_quit = FALSE
    /\ thumbnail = None
    /\ tick = Tick_new
    /\ term = Rx_new

EncodeThumbnail ==
    /\ encWho = "none"
    /\ encWho' = "encode_thumbnail"
    /\ encOut' = encode_thumbnail(thumbBackend, encIn)
    /\ UNCHANGED <<encIn, cacheVars, appVars>>

EncodeIcon ==
    /\ encWho = "none"
    /\ encWho' = "encode_icon"
    /\ encOut' = encode_icon(iconBackend, encIn)
    /\ UNCHANGED <<encIn, cacheVars, appVars>>

RenderImage ==
    /\ encWho = "none"
    /\ \E pl \in Places :
         /\ encWho' = "render_image"
         /\ encOut' = render_image(graphics, pl[1], pl[2], pl[3], pl[4], PngEncode(encIn))
    /\ UNCHANGED <<encIn, cacheVars, appVars>>

NextProto == EncodeThumbnail \/ EncodeIcon \/ RenderImage

SpecProto == InitProto /\ [][NextProto]_vars

ProtoRan == encWho \in {"encode_thumbnail", "encode_icon", "render_image"}

(* C15: under ITerm2 every encoder returns exactly one frame for every     *)
(* bitmap, whatever the payload length: it starts ESC ]1337;File=inline=1, *)
(* carries the whole base64 payload unsplit and ends with BEL; the         *)
(* thumbnail frame has preserveAspectRatio=1, the icon frame width=2 and   *)
(* height=1.                                                               *)
C15_ITerm2OneFrame ==
    (ProtoRan /\ graphics = "ITerm2") =>
        /\ Len(encOut) = 1
        /\ encOut[1].start = "ESC]1337;File="
        /\ encOut[1].ctrl[1] = <<"inline", 1>>
        /\ encOut[1].payload = EncPayload
        /\ encOut[1].end = "BEL"
        /\ encWho = "encode_thumbnail" =>
             encOut[1].ctrl = << <<"inline", 1>>, <<"preserveAspectRatio", 1>> >>
        /\ encWho = "encode_icon" =>
             encOut[1].ctrl = << <<"inline", 1>>, <<"width", 2>>, <<"height", 1>> >>

\* a thumbnail whose payload is longer than 4096 symbols, in one frame
C15_Witness ==
    /\ encWho = "encode_thumbnail"
    /\ thumbBackend = "ITerm2"
    /\ Len(encOut) = 1
    /\ Len(encOut[1].payload) > 2 * CHUNK
    /\ encOut[1].end = "BEL"

(* C16: under Sixel and under Fallback the thumbnail encoder, the icon     *)
(* encoder and render_image return the empty string for every bitmap.      *)
C16_SixelAndFallbackEmpty ==
    (ProtoRan /\ graphics \in {"Sixel", "Fallback"}) => encOut = <<>>

\* the thumbnail encoder has returned the empty string for a bitmap whose
\* payload would be longer than 4096 symbols
C16_Witness ==
    /\ encWho = "encode_thumbnail"
    /\ thumbBackend = "Sixel"
    /\ encIn.kind = "image" /\ encIn.len > 3072
    /\ encOut = <<>>

----------------------------------------------------------------------------
(* The claims on the render loop without graphics and with failing decodes *)

(* C17: when the protocol is Sixel or Fallback the render loop writes no   *)
(* thumbnail bytes to stdout, whatever is selected, and the preview pane   *)
(* does not announce a thumbnail.                                          *)
C17_NoVisualWithoutGraphics ==
    graphics \in {"Sixel", "Fallback"} =>
        /\ tick.written.some => tick.written.val = <<>>
        /\ ~tick.screen.thumbnail_below

\* the selected entry is an image file that is not cached and cannot be
\* decoded: the fetch of this tick will fail to decode
FailingFetch ==
    LET sel == get_selected(fs, ui.selected_index)
    IN  /\ sel.some
        /\ is_image_file(sel.val.path)
        /\ sel.val.path \notin DOMAIN thumbCache
        /\ disk[sel.val.path] = NoImage

(* C18: when the decode of the selected image file fails, get_thumbnail    *)
(* returns None and the tick goes on to the draw; the loop ends only in    *)
(* the poll of a tick that has set should_quit, however many ticks fail.   *)
C18_FailedDecodeIsAbsentAndLoopGoesOn ==
    /\ [][(Fetch /\ FailingFetch) =>
             /\ thumbnail' = None
             /\ thumbCache' = thumbCache
             /\ pc' = "draw"
             /\ ~should_quit']_vars
    /\ [][pc' = "done" => (pc = "done" \/ (pc = "poll" /\ should_quit'))]_vars

\* a tick whose fetch of pics/a.png failed has drawn, written nothing and
\* reached the poll, and the file still cannot be decoded
C18_Witness ==
    /\ pc = "poll"
    /\ tick.fetched = <<A_png>>
    /\ tick.steps = <<"fetch", "draw">>
    /\ thumbnail = None
    /\ disk[A_png] = NoImage
    /\ A_png \notin DOMAIN thumbCache
    /\ tick.screen.preview = "Image"
    /\ ~tick.screen.thumbnail_below
    /\ ~should_quit

----------------------------------------------------------------------------
(* create_thumbnail applied to sources of bounded sizes *)

\* sources of every width and height in 1..MaxSide are tried
MaxSide == 8

\* (width, height) of the sources: all small ones, and some of common and of
\* extreme aspect ratios
SrcDims ==
    ((1..MaxSide) \X (1..MaxSide))
    \cup { <<300, 100>>, <<100, 300>>, <<640, 480>>, <<200, 200>>, <<1920, 1080>>,
           <<201, 1>>, <<1, 201>>, <<400, 1>>, <<1000, 3>> }

\* a decoded image, about to be made a thumbnail
InitThumb ==
    /\ \E d \in SrcDims : encIn = Bitmap(d[1], d[2], 1, 0)
    /\ encWho = "none"
    /\ encOut = <<>>
    /\ CacheIdle
    /\ AppIdle

\* ThumbnailCache::create_thumbnail: the target (new_w, new_h) handed to
\* resize, and the thumbnail
CreateThumbnail ==
    /\ encWho = "none"
    /\ encWho' = "create_thumbnail"
    /\ encOut' = [target |-> thumbnail_target(encIn.w, encIn.h),
                  thumb  |-> create_thumbnail(encIn)]
    /\ UNCHANGED <<encIn, cacheVars, appVars>>

NextThumb == CreateThumbnail

SpecThumb == InitThumb /\ [][NextThumb]_vars

(* C19: the thumbnail preserves the aspect ratio: for a source of width    *)
(* srcW >= 1 and height srcH >= 1 the output dimensions satisfy            *)
(* |outW/outH - srcW/srcH| < 1/min(outW, outH), here multiplied out by     *)
(* outH * srcH * min(outW, outH).                                          *)
C19_AspectRatioPreserved ==
    encWho = "create_thumbnail" =>
        LET srcW == encIn.w
            srcH == encIn.h
            outW == encOut.thumb.w
            outH == encOut.thumb.h
            diff == outW * srcH - srcW * outH
            abs  == IF diff < 0 THEN -diff ELSE diff
        IN  abs * Min(outW, outH) < outH * srcH

(* C20: the target dimensions map the larger source axis to 200 and scale  *)
(* the other axis proportionally, rounded to the nearest pixel.            *)
C20_TargetRoundsToNearest ==
    encWho = "create_thumbnail" =>
        LET srcW == encIn.w
            srcH == encIn.h
        IN  encOut.target =
                IF srcW > srcH
                THEN <<THUMBNAIL_SIZE, RoundDiv(THUMBNAIL_SIZE * srcH, srcW)>>
                ELSE <<RoundDiv(THUMBNAIL_SIZE * srcW, srcH), THUMBNAIL_SIZE>>

----------------------------------------------------------------------------
(* generate_icon applied to every category and both kinds of entry *)

\* the categories generate_icon names
TableTypes == {"rs", "py", "js", "ts", "md", "toml", "json", "yaml", "png", "jpg", "gif"}

\* categories it does not name, among them image extensions, other cases of
\* named ones, the folder key and the empty category
OtherTypes == {"", "txt", "jpeg", "webp", "bmp", "ico", "RS", "Py", "Md", "folder",
               "yml", "c", "h", "go", "lock", "tsx"}

IconInputs == [file_type : TableTypes \cup OtherTypes, is_dir : BOOLEAN]

InitIcon ==
    /\ encIn \in IconInputs
    /\ encWho = "none"
    /\ encOut = <<>>
    /\ CacheIdle
    /\ AppIdle

\* IconManager::generate_icon
GenerateIcon ==
    /\ encWho = "none"
    /\ encWho' = "generate_icon"
    /\ encOut' = generate_icon(encIn.file_type, encIn.is_dir)
    /\ UNCHANGED <<encIn, cacheVars, appVars>>

NextIcon == GenerateIcon

SpecIcon == InitIcon /\ [][NextIcon]_vars

\* the colours as the source's comments name them
Orange == <<255, 100, 50, 255>>
Blue   == <<50, 150, 255, 255>>
Yellow == <<255, 220, 50, 255>>
Green  == <<100, 200, 100, 255>>
Purple == <<200, 150, 255, 255>>
Pink   == <<255, 100, 150, 255>>
Gray   == <<180, 180, 180, 255>>

TableColor ==
    [t \in TableTypes |->
        CASE t = "rs" -> Orange
          [] t = "py" -> Blue
          [] t \in {"js", "ts"} -> Yellow
          [] t = "md" -> Green
          [] t \in {"toml", "json", "yaml"} -> Purple
          [] t \in {"png", "jpg", "gif"} -> Pink]

(* C21: a category outside the table is drawn in the default colour (gray); *)
(* with is_dir the icon has the folder colour whatever the category; a      *)
(* category of the table is drawn, when is_dir is false, in its own table   *)
(* colour, which is neither the default nor the folder colour.              *)
C21_IconColourByCategory ==
    encWho = "generate_icon" =>
        /\ encIn.is_dir => encOut.color = FolderColor
        /\ (~encIn.is_dir /\ encIn.file_type \notin TableTypes) => encOut.color = Gray
        /\ (~encIn.is_dir /\ encIn.file_type \in TableTypes) =>
               /\ encOut.color = TableColor[encIn.file_type]
               /\ encOut.color \notin {Gray, FolderColor}

\* a directory whose category is in the table has been drawn, in the folder
\* colour and not in the category's
C21_Witness ==
    /\ encWho = "generate_icon"
    /\ encIn.is_dir
    /\ encIn.file_type = "rs"
    /\ encOut.color = FolderColor
    /\ encOut.color # TableColor["rs"]

----------------------------------------------------------------------------
(* The render loop and the thumbnail table *)

\* the entry at the focused index, if the listing has one there
HasFocused == ui.selected_index < Len(fs.entries)
Focused == fs.entries[ui.selected_index + 1]

(* C22: in each tick of the render loop the thumbnail table is consulted    *)
(* at most once, and only for the entry at the focused index: nothing is    *)
(* fetched for another entry, and nothing at all when the focused index has *)
(* no entry or its entry is not an image file; the table changes only by    *)
(* such a fetch, gaining at most the focused entry's path.                  *)
C22_FetchOnlyFocused ==
    /\ [](/\ Len(tick.fetched) <= 1
          /\ pc \in {"draw", "write", "poll"} =>
                IF HasFocused /\ is_image_file(Focused.path)
                THEN tick.fetched = <<Focused.path>>
                ELSE tick.fetched = <<>>)
    /\ [][thumbCache' # thumbCache =>
             /\ pc = "fetch"
             /\ HasFocused
             /\ DOMAIN thumbCache' = DOMAIN thumbCache \cup {Focused.path}]_vars

\* the second entry of pics/ is focused and this tick has fetched it, and
\* nothing else
C22_Witness ==
    /\ pc = "poll"
    /\ ui.selected_index = 1
    /\ HasFocused
    /\ tick.fetched = <<B_JPG>>
    /\ Focused.path = B_JPG

\* the focused index is past the end of a listing that holds images, and
\* this tick has fetched nothing
C22_PastTheEnd ==
    /\ pc = "poll"
    /\ fs.current_path = PicsDir
    /\ ~HasFocused
    /\ tick.fetched = <<>>

(* C23: within every tick the steps come in the order fetch, draw, write,   *)
(* poll; what is written is exactly the sequence the cache returned for the *)
(* fetched path; it is written only in a tick whose fetch returned a        *)
(* thumbnail, and only after that tick's frame was drawn.                   *)
C23_TickOrderAndVerbatimWrite ==
    /\ pc = "fetch" => tick.steps = <<>>
    /\ pc = "draw"  => tick.steps = <<"fetch">>
    /\ pc = "write" => tick.steps = <<"fetch", "draw">>
    /\ pc = "poll"  => tick.steps = IF thumbnail.some THEN <<"fetch", "draw", "write">>
                                    ELSE <<"fetch", "draw">>
    /\ tick.written.some =>
          /\ thumbnail.some
          /\ tick.written.val = thumbnail.val
          /\ Len(tick.fetched) = 1
          /\ tick.fetched[1] \in DOMAIN thumbCache
          /\ tick.written.val = thumbCache[tick.fetched[1]]
          /\ tick.screen # NoScreen
          /\ tick.steps = <<"fetch", "draw", "write">>

\* a tick has fetched, drawn and then written a thumbnail of several frames,
\* the one the table holds, and is at its poll
C23_Witness ==
    /\ pc = "poll"
    /\ tick.steps = <<"fetch", "draw", "write">>
    /\ tick.written.some
    /\ Len(tick.written.val) >= 2
    /\ tick.written.val = thumbCache[B_JPG]
    /\ tick.screen.thumbnail_below

----------------------------------------------------------------------------
(* C24: every frame a TileProtocol encoder emits, for any input, in         *)
(* single-frame and in chunked mode, begins with the start marker ESC _G    *)
(* and ends with the end marker ESC \; there is at least one frame, so the  *)
(* whole output starts with ESC _G and ends with ESC \; a single-frame      *)
(* output's control data begins f=100,a=T,t=d.                              *)
C24_FramesDelimited ==
    EncRan =>
        /\ Len(encOut) >= 1
        /\ \A k \in 1..Len(encOut) :
              /\ encOut[k].start = "ESC_G"
              /\ encOut[k].end = "ESC\\"
        /\ encOut[1].start = "ESC_G"
        /\ encOut[Len(encOut)].end = "ESC\\"
        /\ Len(encOut) = 1 =>
              /\ Len(encOut[1].ctrl) >= 3
              /\ SubSeq(encOut[1].ctrl, 1, 3) = << <<"f", 100>>, <<"a", "T">>, <<"t", "d">> >>

\* the thumbnail encoder has emitted three frames, each delimited
C24_Witness ==
    /\ encWho = "thumb"
    /\ Len(encOut) = 3
    /\ \A k \in 1..3 : encOut[k].start = "ESC_G" /\ encOut[k].end = "ESC\\"
    /\ Len(encOut[3].payload) < CHUNK

\* kitty::render has emitted one frame for a small input
C24_SingleFrame ==
    /\ encWho = "render"
    /\ Len(encOut) = 1
    /\ HasCtrl(encOut[1], "f", 100)

----------------------------------------------------------------------------
\* the extension of the path, compared without regard to case, is none of
\* png, jpg, jpeg, gif, webp, bmp, ico, or the path has no extension
NotAnImageName(path) ==
    LET e == extension(path.name)
    IN  \/ ~e.some
        \/ to_lowercase(e.val) \notin ImageExts

(* C25: for a path whose extension, compared case-insensitively, is not    *)
(* one of png, jpg, jpeg, gif, webp, bmp, ico (or that has none),          *)
(* get_thumbnail returns None, neither consults nor changes the table and  *)
(* attempts no decode, also when the table holds entries and the file      *)
(* holds a decodable image.                                                *)
C25_NonImagePathIsRejectedUntouched ==
    [][\A path \in CachePaths :
          (NotAnImageName(path) /\ GetThumbnail(path)) =>
              /\ thumbCache' = thumbCache
              /\ LastCall'.ret = None
              /\ ~LastCall'.miss
              /\ LastCall'.decodes = 0
              /\ LastCall'.encodes = 0]_vars

\* get_thumbnail was called for notes.txt, which holds a decodable image,
\* while the table held an entry; it returned None and the table is as before
C25_Witness ==
    /\ Len(calls) >= 1
    /\ LastCall.op = "get_thumbnail"
    /\ LastCall.path = Notes_txt
    /\ disk[Notes_txt].kind = "image"
    /\ LastCall.had # {}
    /\ DOMAIN thumbCache = LastCall.had
    /\ LastCall.ret = None

\* the same for a path without extension
C25_NoExtension ==
    /\ Len(calls) >= 1
    /\ LastCall.op = "get_thumbnail"
    /\ LastCall.path = Makefile
    /\ LastCall.had # {}
    /\ LastCall.ret = None

----------------------------------------------------------------------------
(* C26: when graphics are not supported (protocol Fallback),               *)
(* get_icon_sequence returns the empty string for every category and every *)
(* is_dir, synthesizes and encodes nothing, and leaves the icon table as   *)
(* it was.                                                                 *)
C26_NoIconWithoutGraphics ==
    [][\A file_type \in IconTypes, is_dir \in BOOLEAN :
          (iconBackend = "Fallback" /\ GetIconSequence(file_type, is_dir)) =>
              /\ LastCall'.ret = Some(<<>>)
              /\ iconCache' = iconCache
              /\ ~LastCall'.miss
              /\ LastCall'.synths = 0
              /\ LastCall'.encodes = 0]_vars

\* under Fallback the icon of a file category was asked for twice; both
\* calls returned the empty string and the table is still empty
C26_Witness ==
    /\ iconBackend = "Fallback"
    /\ Len(calls) = 2
    /\ \A i \in 1..2 :
          /\ calls[i].op = "get_icon_sequence"
          /\ calls[i].ret = Some(<<>>)
          /\ calls[i].hadIcon = {}
    /\ iconCache = <<>>

----------------------------------------------------------------------------
(* Reading an InlineFile frame back *)

\* a base64 decoder (RFC 4648, with padding): 4 symbols -> 3 bytes; the
\* text is refused when its length is no multiple of 4 or a pad stands
\* anywhere but in the last one or two places
Base64Decode(syms) ==
    LET n    == Len(syms)
        pads == IF n >= 1 /\ syms[n] = PAD
                THEN (IF n >= 2 /\ syms[n - 1] = PAD THEN 2 ELSE 1)
                ELSE 0
        m    == 3 * (n \div 4) - pads
        v(j) == IF syms[j] = PAD THEN 0 ELSE syms[j]
        byte(i) ==
            LET g == (i - 1) \div 3
                p == (i - 1) % 3
                s0 == v(4 * g + 1)
                s1 == v(4 * g + 2)
                s2 == v(4 * g + 3)
                s3 == v(4 * g + 4)
            IN  CASE p = 0 -> s0 * 4 + (s1 \div 16)
                  [] p = 1 -> (s1 % 16) * 16 + (s2 \div 4)
                  [] p = 2 -> (s2 % 4) * 64 + s3
    IN  IF n % 4 # 0 \/ \E j \in 1..(n - pads) : syms[j] = PAD
        THEN None
        ELSE Some([i \in 1..m |-> byte(i)])

\* the pixel content of a bitmap
Content(img) ==
    IF img.kind = "icon"
    THEN [kind |-> "icon", color |-> img.color, tab |-> img.tab]
    ELSE [kind |-> "image", len |-> img.len, seed |-> img.seed]

\* a PNG decoder: the pixel content of the bitmap the bytes are the
\* container of; nothing when the bytes are no container (no container is
\* empty)
PngDecode(bytes) ==
    IF Len(bytes) = 0 THEN None
    ELSE IF \E seed \in Seeds : bytes = Bytes(Len(bytes), seed)
    THEN Some([kind |-> "image", len |-> Len(bytes),
               seed |-> CHOOSE seed \in Seeds : bytes = Bytes(Len(bytes), seed)])
    ELSE IF Len(bytes) = 5 /\ bytes[5] \in {0, 1}
    THEN Some([kind |-> "icon",
               color |-> <<bytes[1], bytes[2], bytes[3], bytes[4]>>,
               tab |-> bytes[5] = 1])
    ELSE None

C27_IconReadBack ==
    /\ encWho = "encode_icon"
    /\ graphics = "ITerm2"
    /\ encIn.kind = "icon"
    /\ encIn.tab
    /\ PngDecode(Base64Decode(encOut[1].payload).val) = Some(Content(encIn))

----------------------------------------------------------------------------
(* C28: a failed decode inserts nothing into the thumbnail table: the      *)
(* table after the call equals the table before it.  So the next fetch of  *)
(* the same path misses and attempts the decode again; when that decode    *)
(* succeeds the sequence built is stored under the path and returned, and  *)
(* when it fails again nothing is stored again.                            *)
C28_FailedDecodeCachesNothing ==
    /\ [][\A path \in CachePaths :
             (GetThumbnail(path) /\ FailedDecode(LastCall')) =>
                 thumbCache' = thumbCache]_vars
    /\ [](/\ Len(calls) = 2
          /\ FailedDecode(calls[1])
          /\ calls[2].op = "get_thumbnail"
          /\ calls[2].path = calls[1].path
          => /\ calls[2].miss
             /\ calls[2].decodes = 1
             /\ calls[2].had = calls[1].had
             /\ IF calls[2].img.kind = "none"
                THEN /\ calls[2].ret = None
                     /\ calls[2].encodes = 0
                     /\ DOMAIN thumbCache = calls[2].had
                ELSE LET built == encode_thumbnail(thumbBackend,
                                                   create_thumbnail(calls[2].img))
                     IN  /\ calls[2].encodes = 1
                         /\ calls[2].ret = Some(built)
                         /\ calls[2].path \in DOMAIN thumbCache
                         /\ thumbCache[calls[2].path] = built
                         /\ DOMAIN thumbCache = calls[2].had \cup {calls[2].path})

\* the decode of pics/a.png failed while the table held another entry; the
\* file then became decodable and the next fetch built and stored its
\* thumbnail
C28_Witness ==
    /\ Len(calls) = 2
    /\ FailedDecode(calls[1])
    /\ calls[1].path = A_png
    /\ calls[1].had = {B_JPG}
    /\ calls[2].op = "get_thumbnail"
    /\ calls[2].path = A_png
    /\ calls[2].decodes = 1
    /\ calls[2].encodes = 1
    /\ calls[2].ret.some
    /\ DOMAIN thumbCache = {A_png, B_JPG}

\* the decode failed twice in a row and the table is as it was
C28_FailedAgain ==
    /\ Len(calls) = 2
    /\ FailedDecode(calls[1])
    /\ FailedDecode(calls[2])
    /\ calls[2].path = calls[1].path
    /\ calls[2].had = {B_JPG}
    /\ DOMAIN thumbCache = {B_JPG}

----------------------------------------------------------------------------
(* C29: once a path has a cached thumbnail, get_thumbnail keeps returning  *)
(* the stored sequence, without a decode, whatever has become of the file  *)
(* (changed, deleted, undecodable): the table is consulted before any      *)
(* decode.  An entry leaves the table only when clear() empties it, and    *)
(* the first fetch of an image path after clear() decodes the file again.  *)
C29_CachedEntrySurvivesFileChange ==
    /\ [][\A path \in CachePaths :
             (path \in DOMAIN thumbCache /\ GetThumbnail(path)) =>
                 /\ LastCall'.ret = Some(thumbCache[path])
                 /\ LastCall'.decodes = 0
                 /\ LastCall'.encodes = 0
                 /\ thumbCache' = thumbCache]_vars
    /\ [][(\E path \in DOMAIN thumbCache :
              \/ path \notin DOMAIN thumbCache'
              \/ thumbCache'[path] # thumbCache[path]) =>
             (ClearThumbnails /\ thumbCache' = <<>>)]_vars
    /\ [](/\ Len(calls) = 2
          /\ calls[1].op = "clear"
          /\ calls[2].op = "get_thumbnail"
          /\ is_image_file(calls[2].path)
          => /\ calls[2].miss
             /\ calls[2].decodes = 1)

\* pics/a.png was cached and then deleted or made undecodable; the fetch
\* that followed returned the stored sequence without a decode
C29_Witness ==
    /\ Len(calls) >= 1
    /\ LastCall.op = "get_thumbnail"
    /\ LastCall.path = A_png
    /\ disk[A_png] = NoImage
    /\ A_png \in DOMAIN thumbCache
    /\ LastCall.ret = Some(thumbCache[A_png])
    /\ Len(thumbCache[A_png]) > 0
    /\ LastCall.decodes = 0

\* pics/a.png was cached and its content then changed; the fetch that
\* followed returned the stored sequence, which is not what the file would
\* now give
C29_StaleContent ==
    /\ Len(calls) >= 1
    /\ LastCall.op = "get_thumbnail"
    /\ LastCall.path = A_png
    /\ disk[A_png].kind = "image"
    /\ A_png \in DOMAIN thumbCache
    /\ LastCall.decodes = 0
    /\ LastCall.ret = Some(thumbCache[A_png])
    /\ thumbCache[A_png] # encode_thumbnail(thumbBackend, create_thumbnail(disk[A_png]))

\* after clear() the path was decoded again
C29_DecodedAfterClear ==
    /\ Len(calls) = 2
    /\ calls[1].op = "clear"
    /\ calls[1].had = {A_png}
    /\ calls[2].op = "get_thumbnail"
    /\ calls[2].path = A_png
    /\ calls[2].decodes = 1

----------------------------------------------------------------------------
(* C30: for every source of width >= 1 and height >= 1 the target           *)
(* dimensions create_thumbnail computes lie inside the bounding box and     *)
(* are not degenerate: 1 <= outW <= 200 and 1 <= outH <= 200.               *)
C30_TargetWithinBoxAndNonDegenerate ==
    (encWho = "create_thumbnail" /\ encIn.w >= 1 /\ encIn.h >= 1) =>
        /\ 1 <= encOut.target[1]
        /\ encOut.target[1] <= THUMBNAIL_SIZE
        /\ 1 <= encOut.target[2]
        /\ encOut.target[2] <= THUMBNAIL_SIZE

----------------------------------------------------------------------------
(* C31: after any sequence of key and mouse events the focused index       *)
(* refers to an existing entry whenever the listing is not empty:          *)
(* selected_index < number of entries.                                     *)
C31_FocusedIndexWithinListing ==
    Len(fs.entries) > 0 => ui.selected_index < Len(fs.entries)

----------------------------------------------------------------------------
\* the keys that ask to quit
QuitKeys == {Key("q"), Key("Esc")}

\* the key events of the model
KeyEvents == {ev \in AppEvents : ev.type = "Key"}

C32_MenuOpen ==
    /\ pc = "poll"
    /\ ui.show_context_menu
    /\ ui.context_menu_selected = 2
    /\ ~should_quit

====
